---- MODULE Spec2Model ----
(***************************************************************************)
(* A model of the crate futures-test-sink: the bounded-buffer mock         *)
(* SinkMock (src/src/mock_sink.rs) and the discard mock SinkFeedback       *)
(* (src/src/lib.rs), driven through the four operations of the Sink        *)
(* protocol: poll_ready, start_send, poll_flush, poll_close.               *)
(*                                                                         *)
(* A panic ends the program: the state in which `ret` is a panic has no    *)
(* successor.  A call that never returns (`hang`) has none either.         *)
(***************************************************************************)
EXTENDS Integers, Sequences, FiniteSets, TLC

\* ---------------------------------------------------------------- bounds
\* The error values a script may hold.
Errs == {"E1", "E2"}
\* Most entries the scripts handed to one constructor hold together (an
\* entry of a vec, or of the body of a cycle).
MaxScript == 2
\* Largest max_item handed to new() or set_max_item().
MaxCap == 2
\* Largest flush_at_once handed to new() or set_flush_at_once().
MaxBatch == 2
\* The caller stops calling once the waker has been invoked this many times.
MaxWake == 2

\* ------------------------------------------------------- program constants
DEFAULT_MAX_ITEM == 3
DEFAULT_FLUSH_AT_ONCE == 2

\* Most items the forwarding caller forwards.
MaxItems == 5
\* The caller of a SinkFeedback makes at most this many calls of each group.
MaxCalls == 3
\* The caller stops submitting once this many items are buffered: more than
\* every max_item a mock can have.
MaxCnt == MaxCap + 1
\* Most entries of an iterator handed to fuse_last().
MaxLatch == 3
\* next() calls made on a FuseLast, and poll_flush calls made one after the
\* other on a mock whose script is a FuseLast: more than the script holds.
MaxReads == MaxLatch + 2
\* The items a caller submits (their values are the tests').
Items == {"5", "7"}
\* No item: the call was not a start_send.
NoItem == "-"
\* The values of the iterators that next() is called on directly.
LatchVals == {"a", "b"}

\* The forwarding caller gives up after this many Pending in a row: more
\* than a script that goes on yielding Ready(Ok) can make it see.
MaxTries == (MaxScript + 1) * (MaxCnt + 1)

\* ------------------------------------------------------------------ values
\* Poll<Result<(), E>>
ReadyOk == [tag |-> "ReadyOk", val |-> "-"]
ReadyErr(e) == [tag |-> "ReadyErr", val |-> e]
Pending == [tag |-> "Pending", val |-> "-"]
\* Result<(), E>
Ok == [tag |-> "Ok", val |-> "-"]
Err(e) == [tag |-> "Err", val |-> e]
\* Option<E>
None == [tag |-> "None", val |-> "-"]
Some(e) == [tag |-> "Some", val |-> e]
\* What a call does instead of returning.
Panic(msg) == [tag |-> "panic", val |-> msg]
Hang == [tag |-> "hang", val |-> "-"]
\* No call has been made yet.
NoRet == [tag |-> "none", val |-> "-"]

MsgClosed == "Trying use closed sink"
\* (the messages are the source's, without their backquotes)
MsgNotReady == "start_send() called without correct call of poll_ready()"
MsgFlushEnd == "Unexpected end of flush_feedback iterator!"
MsgUnwrap == "called Option::unwrap() on a None value"

PollVals == {ReadyOk, Pending} \cup {ReadyErr(e) : e \in Errs}
ResVals == {Ok} \cup {Err(e) : e \in Errs}
OptVals == {None} \cup {Some(e) : e \in Errs}

\* --------------------------------------------------------------- iterators
SeqsUpTo(S, n) == UNION {[1..k -> S] : k \in 0..n}

\* std::vec::IntoIter: yields the elements once.
VecIter(s) == [kind |-> "vec", rest |-> s, orig |-> <<>>]
\* Iterator::cycle over a vec (iter::repeat(v) is the cycle of <<v>>).
CycleIter(s) == [kind |-> "cycle", rest |-> s, orig |-> s]
EmptyIter == VecIter(<<>>)

\* Any other Iterator: the script lists what its successive next() calls
\* return, Some(v) or None (an iterator may yield again after a None); past
\* the end of the script every call returns None.
ScriptIter(s) == [kind |-> "script", rest |-> s, orig |-> <<>>]

\* Iterator::next on a vec or cycle iterator: whether a value came, the
\* value, and the iterator afterwards.
VecNext(it) ==
    IF it.rest # <<>>
    THEN [some |-> TRUE, val |-> Head(it.rest), it |-> [it EXCEPT !.rest = Tail(it.rest)]]
    ELSE IF it.kind = "cycle" /\ it.orig # <<>>
    THEN [some |-> TRUE, val |-> Head(it.orig), it |-> [it EXCEPT !.rest = Tail(it.orig)]]
    ELSE [some |-> FALSE, val |-> None, it |-> it]

\* Iterator::next on a ScriptIter.
ScriptNext(it) ==
    IF it.rest = <<>>
    THEN [some |-> FALSE, val |-> None, it |-> it]
    ELSE [some |-> Head(it.rest).tag = "Some",
          val |-> IF Head(it.rest).tag = "Some" THEN Head(it.rest).val ELSE None,
          it |-> [it EXCEPT !.rest = Tail(it.rest)]]

\* Iterator::next on the iterator a Fuse or a FuseLast wraps.
InnerNext(it) == IF it.kind = "script" THEN ScriptNext(it) ELSE VecNext(it)

\* Iterator::fuse (std::iter::Fuse): after the first None, None forever.
Fuse(it) == [iter |-> it, done |-> FALSE]

\* Fuse::next that goes on asking the wrapped iterator after a None.
FuseNext_asks_again(f) ==
    LET n == InnerNext(f.iter)
    IN  [some |-> n.some, val |-> n.val, it |-> [f EXCEPT !.iter = n.it]]

\* Fuse::next
FuseNext(f) ==
    IF f.done THEN [some |-> FALSE, val |-> None, it |-> f]
    ELSE LET n == InnerNext(f.iter)
         IN  IF n.some
             THEN [some |-> TRUE, val |-> n.val, it |-> [f EXCEPT !.iter = n.it]]
             ELSE [some |-> FALSE, val |-> None, it |-> [iter |-> n.it, done |-> TRUE]]

\* IteratorExt::fuse_last / FuseLast::new
fuse_last(it) == [kind |-> "fuse_last", iter |-> Fuse(it), last_item |-> None]

\* FuseLast::next that does not remember the values it returns.
FuseLastNext_forgets(fl) ==
    LET n == FuseNext(fl.iter)
    IN  [some |-> n.some, val |-> n.val, it |-> [fl EXCEPT !.iter = n.it]]

\* FuseLast::next
FuseLastNext(fl) ==
    LET n == FuseNext(fl.iter)
    IN  IF n.some
        THEN [some |-> TRUE, val |-> n.val,
              it |-> [fl EXCEPT !.iter = n.it, !.last_item = Some(n.val)]]
        ELSE [some |-> fl.last_item.tag = "Some", val |-> fl.last_item.val,
              it |-> [fl EXCEPT !.iter = n.it]]

\* reverse that answers with the value it was given.
reverse_same(poll) == Some(poll)

\* reverse (lib.rs 178-183)
reverse(poll) == IF poll = Pending THEN Some(ReadyOk) ELSE Some(Pending)

\* std::iter::successors(first, reverse)
successors(first) == [kind |-> "successors", next |-> first]

\* Successors::next
SuccessorsNext(it) ==
    IF it.next.tag = "None" THEN [some |-> FALSE, val |-> None, it |-> it]
    ELSE [some |-> TRUE, val |-> it.next.val, it |-> [it EXCEPT !.next = reverse(it.next.val)]]

\* Iterator::next, on whichever iterator the mock was given.
IterNext(it) ==
    IF it.kind = "fuse_last" THEN FuseLastNext(it)
    ELSE IF it.kind = "successors" THEN SuccessorsNext(it)
    ELSE InnerNext(it)

\* ready_fallback / send_fallback: any Iterator<Item = E>.  The script lists
\* what the successive next() calls return, Some(e) or None; past the end of
\* the script every call returns None.
FallbackNext(s) ==
    IF s = <<>>
    THEN [some |-> FALSE, val |-> "-", it |-> s]
    ELSE [some |-> Head(s).tag = "Some", val |-> Head(s).val, it |-> Tail(s)]

\* Scripts that do not end in None (a trailing None changes nothing).
FallbackScripts ==
    {s \in SeqsUpTo(OptVals, MaxScript) : s = <<>> \/ s[Len(s)].tag = "Some"}

\* The iterators over the values of V with a script of at most n entries.
Iters(V, n) ==
    {VecIter(s) : s \in SeqsUpTo(V, n)} \cup {CycleIter(s) : s \in SeqsUpTo(V, n) \ {<<>>}}

\* Entries of the script of an iterator.
IterLen(it) == IF it.kind = "cycle" THEN Len(it.orig) ELSE Len(it.rest)

\* The next() calls after which an iterator that still yields is in a state
\* it has been in before.
IterSpan(it) ==
    IF it.kind = "fuse_last" THEN Len(it.iter.iter.rest) + Len(it.iter.iter.orig) + 1
    ELSE IF it.kind = "successors" THEN 2
    ELSE Len(it.rest) + Len(it.orig)

\* ------------------------------------------------------------------- state
VARIABLES
    kind,                 \* which mock was constructed: "SinkMock" or "SinkFeedback"
    \* SinkMock's fields (mock_sink.rs 22-36)
    flush_feedback, ready_fallback, send_fallback,
    max_item, item_cnt, flush_at_once, is_closed, can_start_send,
    \* SinkFeedback's fields (lib.rs 190-195)
    poll_fallback, start_send_fallback,
    \* what the caller observes
    call,                 \* the last call made
    ret,                  \* what it returned (or the panic that ended it)
    flush_reads,          \* flush_feedback.next() calls made during the last call
    wake_cnt,             \* times the waker of the Context was invoked, in all
    pending_cnt,          \* times a call returned Poll::Pending, in all
    given,                \* the iterators the constructor was given
    fb_polls,             \* poll_ready/poll_flush/poll_close calls made on the SinkFeedback
    fb_sends,             \* start_send calls made on the SinkFeedback
    drv,                  \* the caller: its position in its own program
    item,                 \* the item handed to the last call, if a start_send
    \* a FuseLast that next() is called on directly (fuse_last.rs 50-53)
    fused,
    nexts                 \* what its next() calls returned, in order

mock == <<flush_feedback, ready_fallback, send_fallback,
          max_item, item_cnt, flush_at_once, is_closed, can_start_send>>
feedback == <<poll_fallback, start_send_fallback>>
seen == <<call, ret, flush_reads, wake_cnt, pending_cnt>>
made == <<fb_polls, fb_sends>>
latch == <<fused, nexts>>
vars == <<kind, mock, feedback, seen, given, made, drv, item, latch>>

\* The SinkMock as one value: the `self` the methods take.
Self ==
    [flush_feedback |-> flush_feedback, ready_fallback |-> ready_fallback,
     send_fallback |-> send_fallback, max_item |-> max_item, item_cnt |-> item_cnt,
     flush_at_once |-> flush_at_once, is_closed |-> is_closed,
     can_start_send |-> can_start_send]

\* What a method call leaves: the mock afterwards, the value returned, the
\* flush_feedback.next() calls made and the waker invocations made.
Out(self, r, reads, wakes) == [self |-> self, ret |-> r, reads |-> reads, wakes |-> wakes]

\* ---------------------------------------------------------------- SinkMock
\* SinkMock::new
new(ff, rf, sf, mi, fao) ==
    [flush_feedback |-> ff, ready_fallback |-> rf, send_fallback |-> sf,
     max_item |-> mi, item_cnt |-> 0, flush_at_once |-> fao,
     is_closed |-> FALSE, can_start_send |-> FALSE]

\* SinkMock::with_flush_feedback
with_flush_feedback(ff) ==
    new(ff, <<>>, <<>>, DEFAULT_MAX_ITEM, DEFAULT_FLUSH_AT_ONCE)

\* check_panic with the test of is_closed lost.
check_panic_never(self) == FALSE

\* SinkMock::check_panic: TRUE when it panics.
check_panic(self) == self.is_closed

\* A subtraction that empties the buffer whatever the batch.
saturating_sub_all(a, b) == 0

\* usize::saturating_sub
saturating_sub(a, b) == IF a > b THEN a - b ELSE 0

\* One more than the reads after which the loop of poll_flush, still running,
\* has come back to a state it was in (it then runs forever).
LoopFuel(self) ==
    self.item_cnt + IterSpan(self.flush_feedback) + 2

\* A poll_flush that returns Ready(Ok) after its first drain, whatever is
\* left in the buffer.
flush_loop_once(self, reads, fuel) ==
    LET n == IterNext(self.flush_feedback)
        s1 == [self EXCEPT !.flush_feedback = n.it]
        s2 == [s1 EXCEPT !.item_cnt = saturating_sub(self.item_cnt, self.flush_at_once)]
    IN  IF ~n.some THEN Out(s1, Panic(MsgFlushEnd), reads + 1, 0)
        ELSE IF n.val = ReadyOk THEN Out(s2, ReadyOk, reads + 1, 0)
        ELSE IF n.val.tag = "ReadyErr" THEN Out(s1, n.val, reads + 1, 0)
        ELSE Out(s1, Pending, reads + 1, 1)

\* The loop of poll_flush (mock_sink.rs 188-207).
RECURSIVE flush_loop(_, _, _)
flush_loop(self, reads, fuel) ==
    IF fuel = 0 THEN Out(self, Hang, reads, 0)
    ELSE
    LET n == IterNext(self.flush_feedback)
        s1 == [self EXCEPT !.flush_feedback = n.it]
        s2 == [s1 EXCEPT !.item_cnt = saturating_sub(self.item_cnt, self.flush_at_once)]
    IN  IF ~n.some THEN Out(s1, Panic(MsgFlushEnd), reads + 1, 0)
        ELSE IF n.val = ReadyOk
        THEN IF s2.item_cnt = 0
             THEN Out(s2, ReadyOk, reads + 1, 0)
             ELSE flush_loop(s2, reads + 1, fuel - 1)
        ELSE IF n.val.tag = "ReadyErr" THEN Out(s1, n.val, reads + 1, 0)
        ELSE Out(s1, Pending, reads + 1, 1)

\* poll_flush that, returning Pending, puts back the items it drained.
poll_flush_forgets(self) ==
    IF check_panic(self) THEN Out(self, Panic(MsgClosed), 0, 0)
    ELSE LET this == [self EXCEPT !.can_start_send = FALSE]
             f == flush_loop(this, 0, LoopFuel(this))
         IN  IF f.ret = Pending THEN [f EXCEPT !.self.item_cnt = self.item_cnt] ELSE f

\* poll_flush that returns at once, without reading flush_feedback, when the
\* buffer is already empty.
poll_flush_skip_empty(self) ==
    IF check_panic(self) THEN Out(self, Panic(MsgClosed), 0, 0)
    ELSE LET this == [self EXCEPT !.can_start_send = FALSE]
         IN  IF this.item_cnt = 0 THEN Out(this, ReadyOk, 0, 0)
             ELSE flush_loop(this, 0, LoopFuel(this))

\* poll_flush that leaves can_start_send as it finds it.
poll_flush_keeps_armed(self) ==
    IF check_panic(self) THEN Out(self, Panic(MsgClosed), 0, 0)
    ELSE flush_loop(self, 0, LoopFuel(self))

\* SinkMock::poll_flush
poll_flush(self) ==
    IF check_panic(self) THEN Out(self, Panic(MsgClosed), 0, 0)
    ELSE LET this == [self EXCEPT !.can_start_send = FALSE]
         IN  flush_loop(this, 0, LoopFuel(this))

\* poll_ready that takes the buffer for full one item early.
poll_ready_early(self) ==
    IF check_panic(self) THEN Out(self, Panic(MsgClosed), 0, 0)
    ELSE
    LET e == FallbackNext(self.ready_fallback)
        this == [self EXCEPT !.can_start_send = FALSE, !.ready_fallback = e.it]
        f == poll_flush(this)
    IN  IF e.some THEN Out(this, ReadyErr(e.val), 0, 0)
        ELSE IF this.max_item > this.item_cnt + 1
        THEN Out([this EXCEPT !.can_start_send = TRUE], ReadyOk, 0, 0)
        ELSE IF f.ret = ReadyOk
        THEN Out([f.self EXCEPT !.can_start_send = TRUE], ReadyOk, f.reads, f.wakes)
        ELSE f

\* poll_ready that arms start_send whatever its flush returned.
poll_ready_arms(self) ==
    IF check_panic(self) THEN Out(self, Panic(MsgClosed), 0, 0)
    ELSE
    LET e == FallbackNext(self.ready_fallback)
        this == [self EXCEPT !.can_start_send = FALSE, !.ready_fallback = e.it]
        f == poll_flush(this)
    IN  IF e.some THEN Out(this, ReadyErr(e.val), 0, 0)
        ELSE IF this.max_item > this.item_cnt
        THEN Out([this EXCEPT !.can_start_send = TRUE], ReadyOk, 0, 0)
        ELSE [f EXCEPT !.self.can_start_send = TRUE]

\* poll_ready that panics when ready_fallback yields nothing.
poll_ready_unwrap(self) ==
    IF check_panic(self) THEN Out(self, Panic(MsgClosed), 0, 0)
    ELSE
    LET e == FallbackNext(self.ready_fallback)
        this == [self EXCEPT !.can_start_send = FALSE, !.ready_fallback = e.it]
    IN  IF e.some THEN Out(this, ReadyErr(e.val), 0, 0)
        ELSE Out(this, Panic(MsgUnwrap), 0, 0)

\* poll_ready that, at max_item, flushes before it asks ready_fallback.
poll_ready_flush_first(self) ==
    IF check_panic(self) THEN Out(self, Panic(MsgClosed), 0, 0)
    ELSE
    LET c == [self EXCEPT !.can_start_send = FALSE]
        f == IF c.max_item > c.item_cnt THEN Out(c, ReadyOk, 0, 0) ELSE poll_flush(c)
        e == FallbackNext(f.self.ready_fallback)
        this == [f.self EXCEPT !.ready_fallback = e.it]
    IN  IF f.ret.tag \in {"panic", "hang"} THEN f
        ELSE IF e.some THEN Out(this, ReadyErr(e.val), f.reads, f.wakes)
        ELSE IF f.ret = ReadyOk
        THEN Out([this EXCEPT !.can_start_send = TRUE], ReadyOk, f.reads, f.wakes)
        ELSE Out(this, f.ret, f.reads, f.wakes)

\* SinkMock::poll_ready
poll_ready(self) ==
    IF check_panic(self) THEN Out(self, Panic(MsgClosed), 0, 0)
    ELSE
    LET e == FallbackNext(self.ready_fallback)
        this == [self EXCEPT !.can_start_send = FALSE, !.ready_fallback = e.it]
        f == poll_flush(this)
    IN  IF e.some THEN Out(this, ReadyErr(e.val), 0, 0)
        ELSE IF this.max_item > this.item_cnt
        THEN Out([this EXCEPT !.can_start_send = TRUE], ReadyOk, 0, 0)
        ELSE IF f.ret = ReadyOk
        THEN Out([f.self EXCEPT !.can_start_send = TRUE], ReadyOk, f.reads, f.wakes)
        ELSE f

\* The test of start_send on can_start_send (mock_sink.rs 169-171): TRUE
\* when start_send may go on.
start_send_allowed(self) == self.can_start_send

\* start_send that unwraps the next value of send_fallback, as
\* SinkFeedback::start_send does.
start_send_unwrap(self) ==
    IF check_panic(self) THEN Out(self, Panic(MsgClosed), 0, 0)
    ELSE IF ~start_send_allowed(self) THEN Out(self, Panic(MsgNotReady), 0, 0)
    ELSE
    LET e == FallbackNext(self.send_fallback)
        this == [self EXCEPT !.send_fallback = e.it]
    IN  IF e.some THEN Out(this, Err(e.val), 0, 0)
        ELSE Out(this, Panic(MsgUnwrap), 0, 0)

\* SinkMock::start_send
start_send(self) ==
    IF check_panic(self) THEN Out(self, Panic(MsgClosed), 0, 0)
    ELSE IF ~start_send_allowed(self) THEN Out(self, Panic(MsgNotReady), 0, 0)
    ELSE
    LET e == FallbackNext(self.send_fallback)
        this == [self EXCEPT !.send_fallback = e.it]
    IN  IF e.some THEN Out(this, Err(e.val), 0, 0)
        ELSE Out([this EXCEPT !.item_cnt = @ + 1], Ok, 0, 0)

\* poll_close that closes the sink whatever its flush returned.
poll_close_always(self) ==
    IF check_panic(self) THEN Out(self, Panic(MsgClosed), 0, 0)
    ELSE
    LET f == poll_flush(self)
    IN  IF f.ret.tag \in {"panic", "hang"} THEN f
        ELSE [f EXCEPT !.self.is_closed = TRUE]

\* SinkMock::poll_close
poll_close(self) ==
    IF check_panic(self) THEN Out(self, Panic(MsgClosed), 0, 0)
    ELSE
    LET f == poll_flush(self)
    IN  IF f.ret = ReadyOk
        THEN Out([f.self EXCEPT !.is_closed = TRUE], ReadyOk, f.reads, f.wakes)
        ELSE f

\* SinkMock::set_flush_at_once (its argument is a NonZeroUsize)
set_flush_at_once(self, n) == [self EXCEPT !.flush_at_once = n]

\* SinkMock::set_max_item (its argument is a usize)
set_max_item(self, n) == [self EXCEPT !.max_item = n]

\* ------------------------------------------------------------ SinkFeedback
\* from_iter
from_iter(pf, ssf) == [poll_fallback |-> pf, start_send_fallback |-> ssf]

\* ok
ok == [poll_fallback |-> CycleIter(<<ReadyOk>>), start_send_fallback |-> CycleIter(<<Ok>>)]

\* interleave_pending
interleave_pending == from_iter(successors(Some(ReadyOk)), CycleIter(<<Ok>>))

FeedbackSelf == [poll_fallback |-> poll_fallback, start_send_fallback |-> start_send_fallback]

\* SinkFeedback::poll_ready that returns Pending without invoking the waker.
feedback_poll_ready_silent(self) ==
    LET n == IterNext(self.poll_fallback)
        this == [self EXCEPT !.poll_fallback = n.it]
    IN  IF ~n.some THEN Out(this, Panic(MsgUnwrap), 0, 0)
        ELSE Out(this, n.val, 0, 0)

\* SinkFeedback::poll_ready that answers Ready(Ok) once poll_fallback has
\* no next value.
feedback_poll_ready_default(self) ==
    LET n == IterNext(self.poll_fallback)
        this == [self EXCEPT !.poll_fallback = n.it]
    IN  IF ~n.some THEN Out(this, ReadyOk, 0, 0)
        ELSE IF n.val = Pending THEN Out(this, Pending, 0, 1)
        ELSE Out(this, n.val, 0, 0)

\* SinkFeedback::poll_ready
feedback_poll_ready(self) ==
    LET n == IterNext(self.poll_fallback)
        this == [self EXCEPT !.poll_fallback = n.it]
    IN  IF ~n.some THEN Out(this, Panic(MsgUnwrap), 0, 0)
        ELSE IF n.val = Pending THEN Out(this, Pending, 0, 1)
        ELSE Out(this, n.val, 0, 0)

\* SinkFeedback::start_send that answers Ok once start_send_fallback has no
\* next value.
feedback_start_send_default(self) ==
    LET n == IterNext(self.start_send_fallback)
        this == [self EXCEPT !.start_send_fallback = n.it]
    IN  IF ~n.some THEN Out(this, Ok, 0, 0)
        ELSE Out(this, n.val, 0, 0)

\* SinkFeedback::start_send that, like SinkMock::start_send, panics unless
\* the call before it was a poll_ready that returned Ready(Ok).
feedback_start_send_armed(self) ==
    LET n == IterNext(self.start_send_fallback)
        this == [self EXCEPT !.start_send_fallback = n.it]
    IN  IF ~(call = "poll_ready" /\ ret = ReadyOk) THEN Out(self, Panic(MsgNotReady), 0, 0)
        ELSE IF ~n.some THEN Out(this, Panic(MsgUnwrap), 0, 0)
        ELSE Out(this, n.val, 0, 0)

\* SinkFeedback::start_send
feedback_start_send(self) ==
    LET n == IterNext(self.start_send_fallback)
        this == [self EXCEPT !.start_send_fallback = n.it]
    IN  IF ~n.some THEN Out(this, Panic(MsgUnwrap), 0, 0)
        ELSE Out(this, n.val, 0, 0)

\* SinkFeedback::poll_flush
feedback_poll_flush(self) == feedback_poll_ready(self)

\* SinkFeedback::poll_close that answers Ready(Ok) itself, reading nothing.
feedback_poll_close_ok(self) == Out(self, ReadyOk, 0, 0)

\* SinkFeedback::poll_close
feedback_poll_close(self) == feedback_poll_ready(self)

\* ------------------------------------------------------------ the caller
\* The program is still running: no call has panicked or failed to return.
Running == ret.tag \notin {"panic", "hang"}

\* The caller makes call c on the SinkMock and o is what the call leaves.
MockCall(c, o) ==
    /\ kind = "SinkMock"
    /\ Running
    /\ call' = c
    /\ ret' = o.ret
    /\ flush_feedback' = o.self.flush_feedback
    /\ ready_fallback' = o.self.ready_fallback
    /\ send_fallback' = o.self.send_fallback
    /\ max_item' = o.self.max_item
    /\ item_cnt' = o.self.item_cnt
    /\ flush_at_once' = o.self.flush_at_once
    /\ is_closed' = o.self.is_closed
    /\ can_start_send' = o.self.can_start_send
    /\ flush_reads' = o.reads
    /\ wake_cnt' = wake_cnt + o.wakes
    /\ pending_cnt' = pending_cnt + (IF o.ret = Pending THEN 1 ELSE 0)
    /\ item' \in (IF c = "start_send" THEN Items ELSE {NoItem})
    /\ UNCHANGED <<kind, feedback, given, made, latch>>

\* The caller makes call c on the SinkFeedback and o is what the call leaves.
FeedbackCall(c, o) ==
    /\ kind = "SinkFeedback"
    /\ Running
    /\ call' = c
    /\ ret' = o.ret
    /\ poll_fallback' = o.self.poll_fallback
    /\ start_send_fallback' = o.self.start_send_fallback
    /\ flush_reads' = o.reads
    /\ wake_cnt' = wake_cnt + o.wakes
    /\ pending_cnt' = pending_cnt + (IF o.ret = Pending THEN 1 ELSE 0)
    /\ fb_polls' = fb_polls + (IF c = "start_send" THEN 0 ELSE 1)
    /\ fb_sends' = fb_sends + (IF c = "start_send" THEN 1 ELSE 0)
    /\ item' \in (IF c = "start_send" THEN Items ELSE {NoItem})
    /\ UNCHANGED <<kind, mock, given, latch>>

\* A setter returns the mock itself.
SelfRet == [tag |-> "self", val |-> "-"]

InitSeen ==
    /\ call = "new"
    /\ ret = NoRet
    /\ flush_reads = 0
    /\ wake_cnt = 0
    /\ pending_cnt = 0
    /\ fb_polls = 0
    /\ fb_sends = 0
    /\ item = NoItem

\* The state after constructing the SinkMock m.
InitMock(m) ==
    /\ kind = "SinkMock"
    /\ flush_feedback = m.flush_feedback
    /\ ready_fallback = m.ready_fallback
    /\ send_fallback = m.send_fallback
    /\ max_item = m.max_item
    /\ item_cnt = m.item_cnt
    /\ flush_at_once = m.flush_at_once
    /\ is_closed = m.is_closed
    /\ can_start_send = m.can_start_send
    /\ poll_fallback = EmptyIter
    /\ start_send_fallback = EmptyIter
    /\ given = [poll |-> m.flush_feedback, ready |-> m.ready_fallback, send |-> m.send_fallback]
    /\ fused = fuse_last(EmptyIter)
    /\ nexts = <<>>
    /\ InitSeen

\* The state after constructing the SinkFeedback f.
InitFeedbackOf(f) ==
    /\ kind = "SinkFeedback"
    /\ poll_fallback = f.poll_fallback
    /\ start_send_fallback = f.start_send_fallback
    /\ flush_feedback = EmptyIter
    /\ ready_fallback = <<>>
    /\ send_fallback = <<>>
    /\ max_item = 0
    /\ item_cnt = 0
    /\ flush_at_once = 0
    /\ is_closed = FALSE
    /\ can_start_send = FALSE
    /\ given = [poll |-> f.poll_fallback, ready |-> <<>>, send |-> f.start_send_fallback]
    /\ fused = fuse_last(EmptyIter)
    /\ nexts = <<>>
    /\ InitSeen

\* ---------------------------------- a caller that makes any call at any time
Free == drv.phase = "free"
NoDriver == [phase |-> "free", left |-> 0, sent |-> 0, tries |-> 0]

PollReady ==
    /\ Free
    /\ wake_cnt < MaxWake
    /\ MockCall("poll_ready", poll_ready(Self))
    /\ UNCHANGED drv

StartSend ==
    /\ Free
    /\ wake_cnt < MaxWake
    /\ item_cnt < MaxCnt
    /\ MockCall("start_send", start_send(Self))
    /\ UNCHANGED drv

PollFlush ==
    /\ Free
    /\ wake_cnt < MaxWake
    /\ MockCall("poll_flush", poll_flush(Self))
    /\ UNCHANGED drv

PollClose ==
    /\ Free
    /\ wake_cnt < MaxWake
    /\ MockCall("poll_close", poll_close(Self))
    /\ UNCHANGED drv

\* The caller configures the mock after constructing it and before using it.
Configuring == call \in {"new", "set_max_item", "set_flush_at_once"}

SetMaxItem ==
    /\ Free
    /\ Configuring
    /\ \E n \in 0..MaxCap : MockCall("set_max_item", Out(set_max_item(Self, n), SelfRet, 0, 0))
    /\ UNCHANGED drv

SetFlushAtOnce ==
    /\ Free
    /\ Configuring
    /\ \E n \in 1..MaxBatch :
           MockCall("set_flush_at_once", Out(set_flush_at_once(Self, n), SelfRet, 0, 0))
    /\ UNCHANGED drv

\* The scripts a test can hand to new().
MockScripts ==
    {t \in Iters(PollVals, MaxScript) \X FallbackScripts \X FallbackScripts :
        IterLen(t[1]) + Len(t[2]) + Len(t[3]) <= MaxScript}

\* The mocks a test can construct with new() or with_flush_feedback().
Mocks ==
    {new(t[1], t[2], t[3], mi, fao) : t \in MockScripts, mi \in 0..MaxCap, fao \in 0..MaxBatch}
    \cup {with_flush_feedback(ff) : ff \in Iters(PollVals, MaxScript)}

Init == (\E m \in Mocks : InitMock(m)) /\ drv = NoDriver

Next == PollReady \/ StartSend \/ PollFlush \/ PollClose \/ SetMaxItem \/ SetFlushAtOnce

Spec == Init /\ [][Next]_vars

\* ------------------------------------------- the same caller on SinkFeedback
FeedbackPollReady ==
    /\ Free
    /\ fb_polls < MaxCalls
    /\ FeedbackCall("poll_ready", feedback_poll_ready(FeedbackSelf))
    /\ UNCHANGED drv

FeedbackStartSend ==
    /\ Free
    /\ fb_sends < MaxCalls
    /\ FeedbackCall("start_send", feedback_start_send(FeedbackSelf))
    /\ UNCHANGED drv

FeedbackPollFlush ==
    /\ Free
    /\ fb_polls < MaxCalls
    /\ FeedbackCall("poll_flush", feedback_poll_flush(FeedbackSelf))
    /\ UNCHANGED drv

FeedbackPollClose ==
    /\ Free
    /\ fb_polls < MaxCalls
    /\ FeedbackCall("poll_close", feedback_poll_close(FeedbackSelf))
    /\ UNCHANGED drv

\* The sinks a test can construct with from_iter().
FeedbackScripts ==
    {t \in Iters(PollVals, MaxScript + 1) \X Iters(ResVals, MaxScript + 1) :
        IterLen(t[1]) + IterLen(t[2]) <= MaxScript + 1}

Feedbacks == {from_iter(t[1], t[2]) : t \in FeedbackScripts}

InitFeedback == (\E f \in Feedbacks : InitFeedbackOf(f)) /\ drv = NoDriver

NextFeedback ==
    FeedbackPollReady \/ FeedbackStartSend \/ FeedbackPollFlush \/ FeedbackPollClose

SpecFeedback == InitFeedback /\ [][NextFeedback]_vars

\* ------------------------------------------------------ a forwarding caller
\* The caller of the tests drain_test, interleave_pending and error: it
\* forwards `left` items to the SinkMock, for each one polling poll_ready
\* until it is Ready(Ok) and then calling start_send once, and after the
\* last one polls poll_close until it is Ready(Ok); it polls again after
\* every Pending and gives up on the first error.
AfterPoll(r, on_ok) ==
    IF r = ReadyOk THEN [drv EXCEPT !.phase = on_ok, !.tries = 0]
    ELSE IF r = Pending THEN [drv EXCEPT !.tries = @ + 1]
    ELSE [drv EXCEPT !.phase = "failed"]

ForwardPollReady ==
    /\ drv.phase = "ready"
    /\ drv.tries < MaxTries
    /\ MockCall("poll_ready", poll_ready(Self))
    /\ drv' = AfterPoll(poll_ready(Self).ret, "send")

ForwardStartSend ==
    /\ drv.phase = "send"
    /\ MockCall("start_send", start_send(Self))
    /\ drv' = IF start_send(Self).ret = Ok
              THEN [drv EXCEPT !.phase = IF drv.left > 1 THEN "ready" ELSE "close",
                               !.left = @ - 1, !.sent = @ + 1]
              ELSE [drv EXCEPT !.phase = "failed"]

ForwardPollClose ==
    /\ drv.phase = "close"
    /\ drv.tries < MaxTries
    /\ MockCall("poll_close", poll_close(Self))
    /\ drv' = AfterPoll(poll_close(Self).ret, "done")

\* The mocks of the forwarding tests: no ready_fallback, no send_fallback.
ForwardMocks ==
    {new(ff, <<>>, <<>>, mi, fao) :
        ff \in Iters(PollVals, MaxScript), mi \in 0..MaxCap, fao \in 0..MaxBatch}
    \cup {with_flush_feedback(ff) : ff \in Iters(PollVals, MaxScript)}

InitForward ==
    /\ \E m \in ForwardMocks : InitMock(m)
    /\ \E n \in 0..MaxItems :
           drv = [phase |-> IF n > 0 THEN "ready" ELSE "close",
                  left |-> n, sent |-> 0, tries |-> 0]

NextForward == ForwardPollReady \/ ForwardStartSend \/ ForwardPollClose

SpecForward == InitForward /\ [][NextForward]_vars

\* The forwarding tests themselves: the mock of with_flush_feedback, run by
\* an executor.  The executor polls the forwarding future again whenever its
\* waker was invoked, and every Pending of the mock invokes it.
InitForwardDefault ==
    /\ \E ff \in Iters(PollVals, MaxScript) : InitMock(with_flush_feedback(ff))
    /\ \E n \in 0..MaxItems :
           drv = [phase |-> IF n > 0 THEN "ready" ELSE "close",
                  left |-> n, sent |-> 0, tries |-> 0]

SpecForwardFair == InitForwardDefault /\ [][NextForward]_vars /\ WF_vars(NextForward)

\* ------------------------------------- fuse_last and the canned constructors
\* The state after wrapping the iterator `it` with fuse_last().
InitFuseLastOf(it) ==
    /\ kind = "FuseLast"
    /\ fused = fuse_last(it)
    /\ nexts = <<>>
    /\ flush_feedback = EmptyIter
    /\ ready_fallback = <<>>
    /\ send_fallback = <<>>
    /\ max_item = 0
    /\ item_cnt = 0
    /\ flush_at_once = 0
    /\ is_closed = FALSE
    /\ can_start_send = FALSE
    /\ poll_fallback = EmptyIter
    /\ start_send_fallback = EmptyIter
    /\ given = [poll |-> it, ready |-> <<>>, send |-> EmptyIter]
    /\ InitSeen

\* A caller that calls next() on the FuseLast.
FuseLastRead ==
    /\ kind = "FuseLast"
    /\ Len(nexts) < MaxReads
    /\ LET n == FuseLastNext(fused)
           r == IF n.some THEN Some(n.val) ELSE None
       IN  /\ fused' = n.it
           /\ nexts' = Append(nexts, r)
           /\ call' = "next"
           /\ ret' = r
    /\ UNCHANGED <<kind, mock, feedback, flush_reads, wake_cnt, pending_cnt,
                   given, made, drv, item>>

\* A caller that only calls poll_flush, drv.left times, whatever it returns
\* (the crate's example of fuse_last, lib.rs 143-159, with poll_ready).
FlushAgain ==
    /\ drv.phase = "flush"
    /\ drv.left > 0
    /\ \/ MockCall("poll_flush", poll_flush(Self))
       \/ FeedbackCall("poll_flush", feedback_poll_flush(FeedbackSelf))
    /\ drv' = [drv EXCEPT !.left = @ - 1, !.tries = @ + 1]

\* The iterators handed to fuse_last() for next() to be called on.
LatchScripts == {ScriptIter(s) : s \in SeqsUpTo({None} \cup {Some(v) : v \in LatchVals}, MaxLatch)}

\* The scripts handed to a mock through fuse_last().
LatchedPolls == {fuse_last(VecIter(s)) : s \in SeqsUpTo(PollVals, MaxLatch)}

InitHelpers ==
    \/ /\ \E it \in LatchScripts : InitFuseLastOf(it)
       /\ drv = NoDriver
    \/ /\ \/ \E ff \in LatchedPolls : InitMock(with_flush_feedback(ff))
          \/ \E pf \in LatchedPolls : InitFeedbackOf(from_iter(pf, CycleIter(<<Ok>>)))
       /\ drv = [phase |-> "flush", left |-> MaxReads, sent |-> 0, tries |-> 0]
    \/ /\ \/ InitFeedbackOf(ok)
          \/ InitFeedbackOf(interleave_pending)
          \/ InitFeedbackOf(from_iter(EmptyIter, EmptyIter))
       /\ drv = NoDriver

NextHelpers == FuseLastRead \/ FlushAgain \/ NextFeedback

SpecHelpers == InitHelpers /\ [][NextHelpers]_vars

\* ------------------------------------------------------------- all callers
InitAll == Init \/ InitFeedback \/ InitForward

NextAll == Next \/ NextFeedback \/ NextForward

SpecAll == InitAll /\ [][NextAll]_vars

\* ------------------------------------------------------------------ claims
FourOps == {"poll_ready", "start_send", "poll_flush", "poll_close"}

\* The value the k-th next() call on the iterator `it` returns, by position
\* in its script: [some, val].
NthNext(it, k) ==
    IF it.kind = "cycle" /\ it.orig # <<>>
    THEN IF k <= Len(it.rest)
         THEN [some |-> TRUE, val |-> it.rest[k]]
         ELSE [some |-> TRUE, val |-> it.orig[((k - Len(it.rest) - 1) % Len(it.orig)) + 1]]
    ELSE IF k <= Len(it.rest)
         THEN [some |-> TRUE, val |-> it.rest[k]]
         ELSE [some |-> FALSE, val |-> None]

\* C1: on the SinkMock a start_send that is not immediately authorised by a
\* poll_ready that returned Ready(Ok) panics: (a) a start_send made before
\* any other call, and (b) a start_send that follows a start_send (accepted
\* or rejected with a scripted error).  One Ready(Ok) authorises one
\* start_send.
C1_ReadyBeforeSend ==
    [][(kind = "SinkMock" /\ call' = "start_send" /\ call \in {"new", "start_send"})
          => ret'.tag = "panic"]_vars

\* C2: closed is terminal on the SinkMock: a poll_close that returned
\* Ready(Ok) leaves is_closed true, is_closed never becomes false again, and
\* every poll_ready, start_send, poll_flush or poll_close made while
\* is_closed panics with "Trying use closed sink", whatever the scripts still
\* hold.
C2_ClosedIsTerminal ==
    /\ [](kind = "SinkMock" /\ call = "poll_close" /\ ret = ReadyOk => is_closed)
    /\ [][(kind = "SinkMock" /\ is_closed)
             => /\ is_closed'
                /\ (call' \in FourOps => ret' = Panic(MsgClosed))
                /\ ret' = Panic(MsgClosed) => UNCHANGED mock]_vars

\* C2's case: a call on a closed sink panicked although the flush script
\* still held a value.
C2_Witness ==
    /\ kind = "SinkMock" /\ is_closed
    /\ call = "start_send" /\ ret = Panic(MsgClosed)
    /\ IterNext(flush_feedback).some

\* The step is a flush attempt on an open SinkMock: a poll_flush, a
\* poll_close, or a poll_ready that finds no ready_fallback value and the
\* buffer at or above max_item.
FlushAttempt ==
    /\ kind = "SinkMock"
    /\ ~is_closed
    /\ \/ call' \in {"poll_flush", "poll_close"}
       \/ /\ call' = "poll_ready"
          /\ ~FallbackNext(ready_fallback).some
          /\ item_cnt >= max_item

\* C3: every flush attempt on the SinkMock reads flush_feedback at least
\* once, also when the buffer is empty; it panics with "Unexpected end of
\* flush_feedback iterator!" exactly when one of its reads finds the iterator
\* exhausted, and that read is its last: it returns no Ready(Ok), error or
\* Pending in place of the missing value.
C3_FlushReadsScript ==
    [][FlushAttempt =>
          /\ flush_reads' >= 1
          /\ \A k \in 1..flush_reads' :
                 ~NthNext(flush_feedback, k).some
                     => (k = flush_reads' /\ ret' = Panic(MsgFlushEnd))
          /\ ret' = Panic(MsgFlushEnd) => ~NthNext(flush_feedback, flush_reads').some
          /\ ret'.tag = "panic" => ret' = Panic(MsgFlushEnd)]_vars

\* C3's case: a poll_flush on an empty buffer read the exhausted script and
\* panicked.
C3_Witness ==
    /\ kind = "SinkMock" /\ call = "poll_flush"
    /\ item_cnt = 0 /\ flush_reads = 1
    /\ ret = Panic(MsgFlushEnd)

\* C4 as claimed: on the SinkMock reading any of the three scripts past its
\* last element is fatal: the flush_feedback in a flush attempt, the
\* ready_fallback in a poll_ready, the send_fallback in an armed start_send.
C4_EveryExhaustionFatal ==
    [][(kind = "SinkMock" /\ ~is_closed) =>
          /\ (FlushAttempt /\ ~IterNext(flush_feedback).some) => ret'.tag = "panic"
          /\ (call' = "poll_ready" /\ ready_fallback = <<>>) => ret'.tag = "panic"
          /\ (call' = "start_send" /\ can_start_send /\ send_fallback = <<>>)
                 => ret'.tag = "panic"]_vars

\* C4 amended: only the exhaustion of flush_feedback is fatal.  A flush
\* attempt that reads the exhausted flush_feedback panics; a poll_ready that
\* reads the exhausted ready_fallback goes on to the capacity test and panics
\* only if its flush does; an armed start_send that reads the exhausted
\* send_fallback buffers the item and returns Ok.
C4_FlushExhaustionFatal ==
    [][(kind = "SinkMock" /\ ~is_closed) =>
          /\ (FlushAttempt /\ ~IterNext(flush_feedback).some)
                 => ret' = Panic(MsgFlushEnd)
          /\ (call' = "poll_ready" /\ ready_fallback = <<>>)
                 => /\ ret'.tag \in {"ReadyOk", "ReadyErr", "Pending", "hang"}
                       \/ (ret' = Panic(MsgFlushEnd) /\ FlushAttempt)
                    /\ item_cnt < max_item => ret' = ReadyOk
          /\ (call' = "start_send" /\ can_start_send /\ send_fallback = <<>>)
                 => (ret' = Ok /\ item_cnt' = item_cnt + 1)]_vars

\* C4's case: the scripts of ready_fallback and send_fallback were used up by
\* earlier calls, and both a poll_ready and a start_send have returned since.
C4_Witness ==
    /\ kind = "SinkMock"
    /\ given.ready # <<>> /\ ready_fallback = <<>>
    /\ given.send # <<>> /\ send_fallback = <<>>
    /\ call = "start_send" /\ ret = Ok /\ item_cnt = 2

\* The caller is the forwarding one.
Forwarding == kind = "SinkMock" /\ drv.phase # "free"

\* The (poll_ready, start_send) pairs the forwarding caller has begun: those
\* it completed, and the one whose poll_ready has returned Ready(Ok).
Pairs == drv.sent + (IF drv.phase = "send" THEN 1 ELSE 0)

\* C5: on a SinkMock with no ready_fallback and no send_fallback, as long as
\* the (poll_ready, start_send) pairs made number less than max_item and
\* nothing else was called, every poll_ready returned Ready(Ok) and armed
\* start_send, every start_send returned Ok, no Pending was returned, the
\* waker was never invoked, no value of flush_feedback was consumed, and
\* item_cnt is the number of pairs completed.
C5_BelowCapacity ==
    (Forwarding /\ call # "poll_close" /\ Pairs < max_item) =>
        /\ Running
        /\ call = "poll_ready" => (ret = ReadyOk /\ can_start_send /\ drv.phase = "send")
        /\ call = "start_send" => ret = Ok
        /\ pending_cnt = 0
        /\ wake_cnt = 0
        /\ flush_reads = 0
        /\ flush_feedback = given.poll
        /\ item_cnt = drv.sent

\* C5's case: two pairs were made on a mock with max_item 3 and a flush
\* script that would have answered Pending.
C5_Witness ==
    /\ Forwarding /\ max_item = 3
    /\ call = "start_send" /\ drv.sent = 2 /\ item_cnt = 2
    /\ IterNext(flush_feedback).some /\ IterNext(flush_feedback).val = Pending

\* The mock and caller of the scenario of C6: flush script [Pending,
\* Ready(Ok)], max_item 1, flush_at_once 1, at least two items to forward.
C6_Scenario ==
    /\ Forwarding
    /\ given.poll = VecIter(<<Pending, ReadyOk>>)
    /\ max_item = 1 /\ flush_at_once = 1
    /\ drv.left + drv.sent >= 2

\* C6: a poll_ready on an open SinkMock that finds no ready_fallback value
\* and item_cnt >= max_item returns what poll_flush returns on that mock and
\* leaves what it leaves, and arms start_send exactly when that is Ready(Ok);
\* a Pending has invoked the waker.  In the scenario: poll_ready 1 is
\* Ready(Ok) without reading the script and the start_send succeeds;
\* poll_ready 2 reads Pending, invokes the waker, returns Pending and does
\* not arm; poll_ready 3 reads Ready(Ok), empties the buffer, returns
\* Ready(Ok) and arms.
C6_ReadyDelegatesToFlush ==
    /\ [][(FlushAttempt /\ call' = "poll_ready") =>
             LET f == poll_flush([Self EXCEPT !.ready_fallback = FallbackNext(@).it])
             IN  /\ ret' = f.ret
                 /\ item_cnt' = f.self.item_cnt
                 /\ flush_feedback' = f.self.flush_feedback
                 /\ flush_reads' = f.reads
                 /\ wake_cnt' = wake_cnt + (IF ret' = Pending THEN 1 ELSE 0)
                 /\ can_start_send' = (ret' = ReadyOk)]_vars
    /\ [](C6_Scenario =>
             /\ (drv.sent = 0 /\ call = "poll_ready")
                    => (ret = ReadyOk /\ can_start_send /\ flush_reads = 0)
             /\ (drv.sent = 1 /\ call = "start_send") => (ret = Ok /\ item_cnt = 1)
             /\ (drv.sent = 1 /\ call = "poll_ready") =>
                    /\ drv.tries \in {0, 1}
                    /\ drv.tries = 1 =>
                           /\ ret = Pending /\ wake_cnt = 1 /\ ~can_start_send
                           /\ item_cnt = 1 /\ flush_feedback.rest = <<ReadyOk>>
                    /\ drv.tries = 0 =>
                           /\ ret = ReadyOk /\ wake_cnt = 1 /\ can_start_send
                           /\ item_cnt = 0 /\ flush_feedback.rest = <<>>)

\* C6's case: the third poll_ready of the scenario has returned.
C6_Witness ==
    /\ C6_Scenario
    /\ drv.sent = 1 /\ call = "poll_ready" /\ drv.phase = "send"
    /\ ret = ReadyOk /\ wake_cnt = 1 /\ flush_reads = 1

\* item_cnt after n drains of b items from c.
Drained(c, b, n) == IF c > n * b THEN c - n * b ELSE 0

\* C7: a poll_close on an open SinkMock sets is_closed exactly when it
\* returns Ready(Ok), and then item_cnt is 0 (so item_cnt is 0 whenever
\* is_closed).  When it returns an error or Pending, that is the outcome its
\* last read of flush_feedback gave, is_closed stays false, the drains of the
\* Ready(Ok) values read before it stay applied, and the next poll_close is
\* not refused as a use of a closed sink.
C7_CloseAfterFlush ==
    /\ [](kind = "SinkMock" /\ is_closed => item_cnt = 0)
    /\ [][(kind = "SinkMock" /\ ~is_closed /\ call' = "poll_close") =>
             /\ is_closed' = (ret' = ReadyOk)
             /\ ret' # Panic(MsgClosed)
             /\ ret' = ReadyOk => item_cnt' = 0
             /\ ret'.tag \in {"ReadyErr", "Pending"} =>
                    /\ ret' = NthNext(flush_feedback, flush_reads').val
                    /\ item_cnt' = Drained(item_cnt, flush_at_once, flush_reads' - 1)
                    /\ ~is_closed']_vars

\* C7's case: the forwarding caller sent two items below max_item, its first
\* poll_close drained one item and returned Pending, and its second
\* poll_close returned Ready(Ok).
C7_Witness ==
    /\ Forwarding /\ drv.phase = "done" /\ drv.sent = 2
    /\ given.poll = CycleIter(<<ReadyOk, Pending>>)
    /\ max_item = 2 /\ flush_at_once = 1
    /\ wake_cnt = 1 /\ is_closed /\ call = "poll_close" /\ ret = ReadyOk

\* C8: on both mocks every call that returns Pending has invoked the waker
\* once before returning, and a call that returns anything else, start_send
\* among them, has not invoked it; so the waker invocations always number
\* the Pending results returned.
C8_PendingWakesOnce ==
    /\ [](wake_cnt = pending_cnt)
    /\ [][/\ wake_cnt' = wake_cnt + (IF ret' = Pending THEN 1 ELSE 0)
          /\ call' = "start_send" => (ret' # Pending /\ wake_cnt' = wake_cnt)]_vars

\* C8's case: a second call has returned Pending.
C8_Witness ==
    /\ kind = "SinkMock" /\ call = "poll_ready"
    /\ ret = Pending /\ pending_cnt = 2 /\ wake_cnt = 2

\* The mocks of C9: the default max_item and flush_at_once, and a cyclic
\* flush script that holds Ready(Ok) and no error.
C9_Premise ==
    /\ Forwarding
    /\ max_item = DEFAULT_MAX_ITEM /\ flush_at_once = DEFAULT_FLUSH_AT_ONCE
    /\ given.poll.kind = "cycle"
    /\ \E i \in 1..Len(given.poll.orig) : given.poll.orig[i] = ReadyOk
    /\ \A i \in 1..Len(given.poll.orig) : given.poll.orig[i].tag # "ReadyErr"

\* The forwarding caller has finished: poll_close returned Ready(Ok).
C9_Done ==
    /\ drv.phase = "done" /\ drv.left = 0
    /\ call = "poll_close" /\ ret = ReadyOk
    /\ is_closed /\ item_cnt = 0

\* C9: on the mocks of C9 the forwarding caller never meets a panic, an
\* error or a call that does not return, never gives up polling, and
\* eventually gets Ready(Ok) from poll_close with is_closed and item_cnt 0.
C9_ForwardCompletes ==
    /\ [](C9_Premise => (Running /\ drv.phase # "failed" /\ drv.tries < MaxTries))
    /\ (C9_Premise ~> C9_Done)

\* C9's case: five items were forwarded through the script
\* [Ready(Ok), Pending]* and the sink closed, after Pending results.
C9_Witness ==
    /\ C9_Premise /\ C9_Done
    /\ given.poll = CycleIter(<<ReadyOk, Pending>>)
    /\ drv.sent = 5 /\ wake_cnt >= 2

\* C10: on the SinkFeedback the k-th call among poll_ready, poll_flush and
\* poll_close, whatever their mix, returns the k-th value of the
\* poll_fallback given to from_iter; the k-th start_send returns the k-th
\* value of the start_send_fallback given; and each iterator stands where
\* the calls of its own group alone have taken it.
C10_OneSequencePerGroup ==
    kind = "SinkFeedback" =>
        /\ (call \in {"poll_ready", "poll_flush", "poll_close"}
               /\ NthNext(given.poll, fb_polls).some)
              => ret = NthNext(given.poll, fb_polls).val
        /\ (call = "start_send" /\ NthNext(given.send, fb_sends).some)
              => ret = NthNext(given.send, fb_sends).val
        /\ \A j \in 1..(MaxScript + 2) :
              /\ NthNext(poll_fallback, j) = NthNext(given.poll, fb_polls + j)
              /\ NthNext(start_send_fallback, j) = NthNext(given.send, fb_sends + j)

\* C10's case: three polls were made around two start_send, and the
\* poll_close, the third of them, returned the third value of the cyclic
\* script.
C10_Witness ==
    /\ kind = "SinkFeedback" /\ call = "poll_close"
    /\ fb_polls = 3 /\ fb_sends = 2
    /\ given.poll = CycleIter(<<ReadyOk, Pending>>)
    /\ given.send = CycleIter(<<Err("E1")>>)
    /\ ret = ReadyOk

FeedbackPolls == {"poll_ready", "poll_flush", "poll_close"}

\* C11: on the SinkFeedback a poll_ready, poll_flush or poll_close made when
\* poll_fallback has no next value, and a start_send made when
\* start_send_fallback has no next value, panics: it returns no Ready(Ok),
\* Pending or error, and ends the program.
C11_FeedbackExhaustionFatal ==
    [][kind = "SinkFeedback" =>
          /\ (call' \in FeedbackPolls /\ ~NthNext(given.poll, fb_polls + 1).some)
                 => (ret' = Panic(MsgUnwrap) /\ ~Running')
          /\ (call' = "start_send" /\ ~NthNext(given.send, fb_sends + 1).some)
                 => (ret' = Panic(MsgUnwrap) /\ ~Running')]_vars

\* C11's case: the second poll, a poll_flush, found the one-value script
\* used up (the test test_panic_on_iter_end).
C11_Witness ==
    /\ kind = "SinkFeedback" /\ call = "poll_flush"
    /\ given.poll = VecIter(<<ReadyOk>>) /\ fb_polls = 2 /\ fb_sends = 1
    /\ ret = Panic(MsgUnwrap)

\* C12 as claimed: on a SinkFeedback whose start_send_fallback is the empty
\* iterator or the cycle of Ok, every start_send returns Ok, whatever the
\* item and however many were made.
C12_EmptyOrCyclicOk ==
    (kind = "SinkFeedback" /\ call = "start_send"
        /\ given.send \in {EmptyIter, CycleIter(<<Ok>>)})
    => ret = Ok

\* C12 amended: on a SinkFeedback whose start_send_fallback is the cycle of
\* Ok every start_send returns Ok, whatever the item and however many were
\* made; on one whose start_send_fallback is the empty iterator the first
\* start_send panics.
C12_CyclicOkAccepts ==
    (kind = "SinkFeedback" /\ call = "start_send") =>
        /\ item \in Items
        /\ given.send = CycleIter(<<Ok>>) => ret = Ok
        /\ given.send = EmptyIter => (ret = Panic(MsgUnwrap) /\ fb_sends = 1)

\* C12's case: the third start_send in a row, of the item 7, returned Ok.
C12_Witness ==
    /\ kind = "SinkFeedback" /\ call = "start_send"
    /\ given.send = CycleIter(<<Ok>>)
    /\ fb_sends = 3 /\ fb_polls = 0 /\ item = "7"
    /\ ret = Ok

\* The position of the first None of the script s (one past its end if it
\* holds none): the read at which the wrapped iterator is first exhausted.
FirstNone(s) ==
    IF \E i \in 1..Len(s) : s[i] = None
    THEN CHOOSE i \in 1..Len(s) : s[i] = None /\ \A j \in 1..(i - 1) : s[j] # None
    ELSE Len(s) + 1

\* What the k-th read of the latch of s is to return.
Latched(s, k) ==
    IF FirstNone(s) = 1 THEN None
    ELSE IF k < FirstNone(s) THEN s[k]
    ELSE s[FirstNone(s) - 1]

\* C13: the reads of fuse_last(it) return the values of `it` in order up to
\* its first None, and after that the last of those values on every read,
\* never a value `it` yields after its first None; if the first next() of
\* `it` is None every read returns None.
C13_LatchOnLast ==
    kind = "FuseLast" =>
        \A k \in 1..Len(nexts) : nexts[k] = Latched(given.poll.rest, k)

\* C13's case: five reads of the latch of an iterator that yields a, then
\* None, then b.
C13_Witness ==
    /\ kind = "FuseLast"
    /\ given.poll = ScriptIter(<<Some("a"), None, Some("b")>>)
    /\ nexts = <<Some("a"), Some("a"), Some("a"), Some("a"), Some("a")>>

\* The flush script of the scenario of C14.
C14_Script == <<ReadyOk, ReadyErr("E1"), ReadyOk>>

\* C14: on a freshly constructed mock whose script is fuse_last of the vec
\* s, the k-th of consecutive poll_flush calls returns s[k] while k <= Len(s)
\* and s[Len(s)] afterwards, and none panics, unless s is empty; on the
\* SinkMock the buffer stays empty and each call reads one value.  For s =
\* [Ready(Ok), Ready(Err(E)), Ready(Ok)] the calls return Ready(Ok),
\* Ready(Err(E)), Ready(Ok), and Ready(Ok) from the fourth on.
C14_LatchedFlush ==
    (drv.phase = "flush" /\ drv.tries >= 1) =>
        LET s == given.poll.iter.iter.rest
            k == drv.tries
        IN  /\ call = "poll_flush"
            /\ s # <<>> => (Running /\ ret = s[IF k <= Len(s) THEN k ELSE Len(s)])
            /\ s = <<>> => (~Running /\ k = 1)
            /\ kind = "SinkMock" => (item_cnt = 0 /\ ~is_closed /\ flush_reads = 1)
            /\ s = C14_Script =>
                   /\ k = 1 => ret = ReadyOk
                   /\ k = 2 => ret = ReadyErr("E1")
                   /\ k >= 3 => ret = ReadyOk

\* C14's case: the fifth poll_flush on the SinkMock of the scenario has
\* returned Ready(Ok).
C14_Witness ==
    /\ kind = "SinkMock" /\ drv.phase = "flush" /\ drv.tries = 5
    /\ given.poll = fuse_last(VecIter(C14_Script))
    /\ call = "poll_flush" /\ ret = ReadyOk /\ flush_reads = 1

\* C15: the sink of interleave_pending() answers the k-th of its
\* poll_ready, poll_flush and poll_close calls, counted together, with
\* Ready(Ok) when k is odd and with Pending, after invoking the waker once,
\* when k is even, never with an error or a panic; every start_send returns
\* Ok, and the start_send calls made do not change the answer that comes
\* next.
C15_Interleave ==
    (kind = "SinkFeedback" /\ given.poll = interleave_pending.poll_fallback) =>
        /\ Running
        /\ call \in FeedbackPolls => ret = (IF fb_polls % 2 = 1 THEN ReadyOk ELSE Pending)
        /\ call = "start_send" => ret = Ok
        /\ wake_cnt = fb_polls \div 2
        /\ pending_cnt = wake_cnt
        /\ IterNext(poll_fallback).some
        /\ IterNext(poll_fallback).val = (IF fb_polls % 2 = 0 THEN ReadyOk ELSE Pending)

\* C15's case: a poll_ready, three start_send, a poll_flush that returned
\* Pending, and a poll_close, the third poll, that returned Ready(Ok).
C15_Witness ==
    /\ kind = "SinkFeedback" /\ given.poll = interleave_pending.poll_fallback
    /\ fb_polls = 3 /\ fb_sends = 3 /\ wake_cnt = 1
    /\ call = "poll_close" /\ ret = ReadyOk

\* C16: on an open SinkMock a poll_ready for which ready_fallback yields
\* nothing (it is empty, used up, or its next() returns None) does not panic
\* for that: below max_item it returns Ready(Ok), arms start_send and reads
\* no flush_feedback value, otherwise it flushes; an armed start_send for
\* which send_fallback yields nothing returns Ok and adds exactly one to
\* item_cnt.
C16_NoOverride ==
    [][(kind = "SinkMock" /\ ~is_closed) =>
          /\ (call' = "poll_ready" /\ ~FallbackNext(ready_fallback).some) =>
                 /\ item_cnt < max_item =>
                        /\ ret' = ReadyOk /\ can_start_send'
                        /\ flush_reads' = 0 /\ item_cnt' = item_cnt
                 /\ item_cnt >= max_item =>
                        /\ flush_reads' >= 1
                        /\ ret' = poll_flush(Self).ret
                        /\ ret'.tag = "panic" => ret' = Panic(MsgFlushEnd)
                 /\ ready_fallback' = FallbackNext(ready_fallback).it
          /\ (call' = "start_send" /\ can_start_send /\ ~FallbackNext(send_fallback).some) =>
                 /\ ret' = Ok
                 /\ item_cnt' = item_cnt + 1
                 /\ send_fallback' = FallbackNext(send_fallback).it]_vars

\* C16's case: the first next() of ready_fallback returned None and left an
\* error for later, the poll_ready returned Ready(Ok), and the start_send,
\* with an empty send_fallback, returned Ok.
C16_Witness ==
    /\ kind = "SinkMock"
    /\ given.ready = <<None, Some("E1")>> /\ ready_fallback = <<Some("E1")>>
    /\ given.send = <<>>
    /\ call = "start_send" /\ ret = Ok /\ item_cnt = 1

\* C17: on an open SinkMock a poll_ready for which ready_fallback yields e
\* returns Ready(Err(e)) and leaves item_cnt, is_closed and flush_feedback
\* as they were, reading no flush_feedback value and invoking no waker, also
\* when item_cnt >= max_item; an armed start_send for which send_fallback
\* yields e returns Err(e) and leaves item_cnt, is_closed and flush_feedback
\* as they were.  A poll_ready made next is not refused as a use of a closed
\* sink.
C17_ScriptedErrorsKeepBuffer ==
    [][(kind = "SinkMock" /\ ~is_closed) =>
          /\ (call' = "poll_ready" /\ FallbackNext(ready_fallback).some) =>
                 /\ ret' = ReadyErr(FallbackNext(ready_fallback).val)
                 /\ item_cnt' = item_cnt /\ ~is_closed'
                 /\ flush_feedback' = flush_feedback /\ flush_reads' = 0
                 /\ wake_cnt' = wake_cnt
          /\ (call' = "start_send" /\ can_start_send /\ FallbackNext(send_fallback).some) =>
                 /\ ret' = Err(FallbackNext(send_fallback).val)
                 /\ item_cnt' = item_cnt /\ ~is_closed'
                 /\ flush_feedback' = flush_feedback /\ flush_reads' = 0
          /\ (call \in {"poll_ready", "start_send"} /\ ret.tag \in {"ReadyErr", "Err"}
                 /\ call' = "poll_ready")
                 => (ret'.tag = "panic" => (ret' = Panic(MsgFlushEnd) /\ FlushAttempt))]_vars

\* C17's case: with one item buffered and max_item 1, the poll_ready for
\* which ready_fallback yielded E1 returned Ready(Err(E1)) without flushing
\* (the flush script is empty: a flush would have panicked).
C17_Witness ==
    /\ kind = "SinkMock" /\ max_item = 1 /\ item_cnt = 1
    /\ given.ready = <<None, Some("E1")>> /\ ready_fallback = <<>>
    /\ given.poll = EmptyIter
    /\ call = "poll_ready" /\ ret = ReadyErr("E1") /\ flush_reads = 0

\* The last call on the SinkMock returned and did not authorise a
\* start_send: a poll_flush, or a poll_close or poll_ready that returned an
\* error or Pending.
NonAuthorising ==
    /\ kind = "SinkMock" /\ Running
    /\ \/ call = "poll_flush"
       \/ call \in {"poll_close", "poll_ready"} /\ ret.tag \in {"ReadyErr", "Pending"}

\* C18: after a poll_flush, whatever it returned, and after a poll_close or a
\* poll_ready that returned an error or Pending, can_start_send is false and
\* a start_send made next panics with the message of the missing
\* poll_ready, also when an earlier poll_ready had returned Ready(Ok).
C18_ArmingCleared ==
    /\ [](NonAuthorising => (~can_start_send /\ ~is_closed))
    /\ [][(NonAuthorising /\ call' = "start_send")
             => (ret' = Panic(MsgNotReady) /\ item_cnt' = item_cnt)]_vars

\* C18's case: an item was accepted, so can_start_send was true when the
\* start_send returned; a later call returned Pending, and the start_send
\* made after the calls that followed panicked.
C18_Witness ==
    /\ kind = "SinkMock" /\ call = "start_send"
    /\ ret = Panic(MsgNotReady)
    /\ item_cnt = 1 /\ pending_cnt = 1

\* The Ready(Ok) values among those the step read from flush_feedback.
OksRead ==
    Cardinality({k \in 1..flush_reads' :
                    NthNext(flush_feedback, k).some /\ NthNext(flush_feedback, k).val = ReadyOk})

\* C19: every step of the SinkMock changes item_cnt in one of two ways only:
\* a start_send that returns Ok adds one, and every Ready(Ok) value a call
\* reads from flush_feedback takes flush_at_once away, stopping at 0.  An
\* error or Pending value takes nothing, and what the Ready(Ok) values read
\* before it took stays taken when the call returns that error or Pending.
C19_BufferSteps ==
    [][kind = "SinkMock" =>
          /\ item_cnt' =
                 IF call' = "start_send" /\ ret' = Ok THEN item_cnt + 1
                 ELSE Drained(item_cnt, flush_at_once, OksRead)
          /\ call' = "start_send" => flush_reads' = 0
          /\ item_cnt' >= 0]_vars

\* C19's case: a poll_flush read Ready(Ok), which took one item of two, then
\* Pending, and returned Pending with one item left.
C19_Witness ==
    /\ kind = "SinkMock" /\ call = "poll_flush"
    /\ flush_at_once = 1 /\ flush_reads = 2
    /\ ret = Pending /\ item_cnt = 1

\* C20: on an open SinkMock a poll_flush that returns Ready(Ok), and a
\* poll_ready that started with item_cnt >= max_item and returns Ready(Ok),
\* leave item_cnt 0, not merely below max_item; a flush attempt whose first
\* value is Ready(Ok) and whose first drain leaves items in the buffer reads
\* a second value.
C20_FlushDrainsToEmpty ==
    [][(kind = "SinkMock" /\ ~is_closed) =>
          /\ (call' = "poll_flush" /\ ret' = ReadyOk) => item_cnt' = 0
          /\ (call' = "poll_ready" /\ item_cnt >= max_item /\ ret' = ReadyOk)
                 => (item_cnt' = 0 /\ flush_reads' >= 1)
          /\ (FlushAttempt /\ NthNext(flush_feedback, 1).val = ReadyOk
                 /\ Drained(item_cnt, flush_at_once, 1) > 0)
                 => flush_reads' >= 2]_vars

\* C20's case: with max_item 2 and flush_at_once 1, a poll_ready on two
\* buffered items read two Ready(Ok) values and returned Ready(Ok) with the
\* buffer empty.
C20_Witness ==
    /\ kind = "SinkMock" /\ call = "poll_ready"
    /\ max_item = 2 /\ flush_at_once = 1
    /\ flush_reads = 2 /\ ret = ReadyOk /\ item_cnt = 0

\* C21: in every state of the SinkMock, whatever calls and setters led to
\* it, item_cnt <= max_item.
C21_CapacityCeiling ==
    kind = "SinkMock" => item_cnt <= max_item

\* C22: in every state of the SinkMock max_item >= 1 and flush_at_once >= 1.
C22_SizingPositive ==
    kind = "SinkMock" => (max_item >= 1 /\ flush_at_once >= 1)

\* ceil(a / b), for b >= 1.
CeilDiv(a, b) == (a + b - 1) \div b

\* C23: every flush attempt on the SinkMock returns or panics, after at
\* most max(1, ceil(item_cnt / flush_at_once)) reads of flush_feedback: it
\* returns Ready(Ok) with item_cnt 0, an error or Pending, or panics on the
\* exhausted script; it never runs forever.
C23_FlushTerminates ==
    [][FlushAttempt =>
          /\ ret' # Hang
          /\ ret'.tag \in {"ReadyOk", "ReadyErr", "Pending", "panic"}
          /\ ret' = ReadyOk => item_cnt' = 0
          /\ flush_at_once >= 1 =>
                 flush_reads' <= (IF CeilDiv(item_cnt, flush_at_once) > 1
                                  THEN CeilDiv(item_cnt, flush_at_once) ELSE 1)]_vars

\* C24: the SinkFeedback enforces no order of calls: a start_send for which
\* start_send_fallback has a next value returns that value, and a
\* poll_ready, poll_flush or poll_close for which poll_fallback has a next
\* value returns it, whatever call came before and whatever it returned: no
\* call at all, a start_send, a poll that returned Pending or an error, or a
\* poll_close that returned Ready(Ok).  No call panics for a reason other
\* than an exhausted script.
C24_NoCallOrder ==
    [][kind = "SinkFeedback" =>
          /\ (call' = "start_send" /\ NthNext(given.send, fb_sends + 1).some)
                 => (ret' = NthNext(given.send, fb_sends + 1).val /\ Running')
          /\ (call' \in FeedbackPolls /\ NthNext(given.poll, fb_polls + 1).some)
                 => (ret' = NthNext(given.poll, fb_polls + 1).val /\ Running')
          /\ ret'.tag = "panic" => ret' = Panic(MsgUnwrap)]_vars

\* C24's case: one poll was made and returned Ready(Ok), two start_send
\* were made for it, and the second returned Ok.
C24_Witness ==
    /\ kind = "SinkFeedback"
    /\ given.poll = VecIter(<<ReadyOk>>) /\ poll_fallback = EmptyIter
    /\ fb_polls = 1 /\ fb_sends = 2
    /\ call = "start_send" /\ ret = Ok

====
